---- MODULE Spec2Model ----
(***************************************************************************)
(* explain-commit: read the HEAD commit with `git show`, make sure the     *)
(* local LM Studio server is reachable (starting it when it is not), send  *)
(* the commit to the chat-completions endpoint and print the answer.       *)
(*                                                                         *)
(* The program is sequential.  Its state is the position of the single     *)
(* thread (pc), the locals that are live at that position, and the         *)
(* collaborator it is blocked on: the git subprocess, the HTTP server, the *)
(* lms CLI, the process it started.  Every action is one step of the       *)
(* thread from one blocking point to the next, or the answer of the        *)
(* collaborator it is blocked on.                                          *)
(*                                                                         *)
(* Two revisions of the server bootstrap are in the sources and both are   *)
(* modelled, selected by `build`:                                          *)
(*   "cli"  src/internal/llm/client.go       (headless `lms` CLI)          *)
(*   "gui"  src/internal/git/git.go:82-134   (GUI application process)     *)
(* Text is a sequence of one-character strings.                            *)
(***************************************************************************)
EXTENDS Integers, Sequences, FiniteSets, TLC

\* ------------------------------------------------------------- bounds
\* longest output of `git show` that is enumerated
MaxOut == 3
\* longest value of EXPLAIN_TEMPERATURE that is enumerated
MaxTemp == 3
\* longest message content of a response candidate
MaxContent == 2
\* most candidates in a response
MaxChoices == 2
\* gui: how many seconds past the deadline a pending tick may still be taken
MaxOverrun == 6

\* --------------------------------------------------- program constants
\* seconds
ReadyTimeout == 30
PollInterval == 1
ProbeTimeout == 5
CLICheckTimeout == 2
ModelListTimeout == 3
ModelLoadTimeout == 60
PostTimeout == 60
StatusOK == 200

\* ---------------------------------------------------------------- text
RECURSIVE SeqsUpTo(_, _)
SeqsUpTo(S, n) ==
    IF n = 0 THEN {<<>>}
    ELSE LET shorter == SeqsUpTo(S, n - 1)
         IN  shorter \cup {Append(s, c) : s \in shorter, c \in S}

\* unicode.IsSpace, on the characters the model uses
IsSpace(c) == c \in {" ", "\n"}

RECURSIVE TrimLeft(_)
TrimLeft(s) ==
    IF s # <<>> /\ IsSpace(Head(s)) THEN TrimLeft(Tail(s)) ELSE s

RECURSIVE TrimRight(_)
TrimRight(s) ==
    IF s # <<>> /\ IsSpace(s[Len(s)]) THEN TrimRight(SubSeq(s, 1, Len(s) - 1)) ELSE s

\* strings.TrimSpace
TrimSpace(s) == TrimRight(TrimLeft(s))

\* strings.Contains
Contains(s, sub) ==
    \E i \in 1..(Len(s) - Len(sub) + 1) : SubSeq(s, i, i + Len(sub) - 1) = sub

\* fmt.Sprintf with a single string argument: every %s verb is replaced by
\* the argument, every other character is copied.
RECURSIVE Sprintf(_, _)
Sprintf(format, arg) ==
    IF format = <<>> THEN <<>>
    ELSE IF Len(format) >= 2 /\ format[1] = "%" /\ format[2] = "s"
         THEN arg \o Sprintf(SubSeq(format, 3, Len(format)), arg)
         ELSE <<Head(format)>> \o Sprintf(Tail(format), arg)

\* ------------------------------------------------------------- errors
\* The error values of the code, named after the taxonomy of the design
\* (section 7); status and body are carried by APIError only.
NoBody == [kind |-> "none", choices |-> <<>>]
Err(kind) == [kind |-> kind, status |-> 0, body |-> NoBody]
nil == Err("nil")
ExecutionError == Err("ExecutionError")
TransportError == Err("TransportError")
DecodeError == Err("DecodeError")
EmptyResponseError == Err("EmptyResponseError")
TimeoutError == Err("TimeoutError")
LoadError == Err("LoadError")
StartError == Err("StartError")
StartManuallyError == Err("StartManuallyError")
MarshalError == Err("MarshalError")
APIError(status, body) == [kind |-> "APIError", status |-> status, body |-> body]

\* ------------------------------------------------- the pure functions
\* GetLatestCommit without the test for an empty text.
GetLatestCommit_NoEmptyCheck(exitOK, out) ==
    IF ~exitOK THEN [text |-> <<>>, err |-> ExecutionError]
    ELSE [text |-> TrimSpace(out), err |-> nil]

\* GetLatestCommit, from the point where `git show` has ended: exitOK says
\* that cmd.Output returned no error, out is the captured standard output.
GetLatestCommit(exitOK, out) ==
    IF ~exitOK THEN [text |-> <<>>, err |-> ExecutionError]
    ELSE LET commitText == TrimSpace(out)
         IN  IF commitText = <<>> THEN [text |-> <<>>, err |-> ExecutionError]
             ELSE [text |-> commitText, err |-> nil]

\* The package constants.
defaultBaseURL == "http://localhost:1234/v1"
defaultModel == "qwen/qwen3-4b-2507"
defaultAPIKey == "lm-studio"

\* A float64: a number, kept in units of 10^-MaxTemp (exact for every
\* enumerated string), or one of the values that are no number.
Num(n) == [cls |-> "num", n |-> n]
NaN == [cls |-> "nan", n |-> 0]
Inf == [cls |-> "inf", n |-> 0]

\* strconv.ParseFloat on the strings the model uses: the words nan and inf,
\* else digits with at most one point and at least one digit.
IsDigit(c) == c \in {"0", "2", "7"}
DigitVal(c) == IF c = "7" THEN 7 ELSE IF c = "2" THEN 2 ELSE 0

RECURSIVE Pow10(_)
Pow10(n) == IF n = 0 THEN 1 ELSE 10 * Pow10(n - 1)

TempScale == Pow10(MaxTemp)

RECURSIVE DigitsVal(_)
DigitsVal(ds) ==
    IF ds = <<>> THEN 0 ELSE 10 * DigitsVal(SubSeq(ds, 1, Len(ds) - 1)) + DigitVal(ds[Len(ds)])

AllDigits(s) == \A i \in 1..Len(s) : IsDigit(s[i])

PointAt(s) ==
    IF \E i \in 1..Len(s) : s[i] = "."
    THEN CHOOSE i \in 1..Len(s) : s[i] = "." /\ \A j \in 1..(i - 1) : s[j] # "."
    ELSE Len(s) + 1

ParseFloat(s) ==
    LET p == PointAt(s)
        whole == SubSeq(s, 1, p - 1)
        frac == SubSeq(s, p + 1, Len(s))
    IN  IF s = <<"n", "a", "n">> THEN [ok |-> TRUE, val |-> NaN]
        ELSE IF s = <<"i", "n", "f">> THEN [ok |-> TRUE, val |-> Inf]
        ELSE IF AllDigits(whole) /\ AllDigits(frac) /\ Len(whole) + Len(frac) >= 1
        THEN [ok |-> TRUE,
              val |-> Num(DigitsVal(whole) * TempScale
                          + DigitsVal(frac) * Pow10(MaxTemp - Len(frac)))]
        ELSE [ok |-> FALSE, val |-> Num(0)]

\* 0.2, the default sampling temperature
DefaultTemperature == Num(2 * Pow10(MaxTemp - 1))

\* ResolveTemperature that takes the parsed value without looking at the
\* parse error.
ResolveTemperature_NoFallback(tStr) ==
    IF tStr # <<>> THEN ParseFloat(tStr).val ELSE DefaultTemperature

\* client.go:165-170: the temperature ExplainCommit sends, given what
\* os.Getenv("EXPLAIN_TEMPERATURE") returned ("" when unset).
ResolveTemperature(tStr) ==
    IF tStr # <<>> /\ ParseFloat(tStr).ok THEN ParseFloat(tStr).val
    ELSE DefaultTemperature

\* client.go:157-159: base URL, model and API key are the package constants.
ResolveBaseURL(e) == defaultBaseURL
ResolveModel(e) == defaultModel
ResolveAPIKey(e) == defaultAPIKey

\* The two prompt templates, shortened to their shape: surrounding line
\* breaks that TrimSpace removes, fixed text, and in the user template the
\* one %s verb between the fixed head and the trailing instruction.
SystemTemplate == <<"\n", "R", "\n">>
UserTemplate == <<"\n", "H", "\n", "%", "s", "\n", "E", "\n">>

systemPrompt == TrimSpace(SystemTemplate)

\* userPrompt with the commit text spliced into the format string instead of
\* passed as the argument.
userPrompt_InFormat(commitText) ==
    Sprintf(<<"H", "\n">> \o commitText \o <<"\n", "E">>, <<>>)

userPrompt(commitText) == Sprintf(TrimSpace(UserTemplate), commitText)

\* client.go:190-197: the messages of the request body.
Messages(commitText) ==
    << [role |-> "system", content |-> systemPrompt],
       [role |-> "user", content |-> userPrompt(commitText)] >>

\* client.go:199-202: json.Marshal of the request body fails exactly when the
\* temperature is no number (NaN, an infinity).
Marshals(req) == req.temperature.cls = "num"

\* client.go:156-213: the POST request ExplainCommit builds from the commit
\* text and the environment e.
BuildRequest(commitText, e) ==
    [ url |-> <<ResolveBaseURL(e), "/chat/completions">>,
      auth |-> <<"Bearer ", ResolveAPIKey(e)>>,
      model |-> ResolveModel(e),
      messages |-> Messages(commitText),
      temperature |-> ResolveTemperature(e.EXPLAIN_TEMPERATURE) ]

NoRequest ==
    [ url |-> <<>>, auth |-> <<>>, model |-> "", messages |-> <<>>,
      temperature |-> Num(0) ]

\* A response body is text that is no JSON ("oops"), a JSON value whose
\* shape does not fit chatResponse (json.Decoder reports a type error), or a
\* JSON object whose "choices" is a list of candidates; a candidate is
\* written as its message content, "" when the field is absent.
TextBody == [kind |-> "text", choices |-> <<>>]
MismatchBody == [kind |-> "mismatch", choices |-> <<>>]
JsonBody(cs) == [kind |-> "json", choices |-> cs]

\* json.NewDecoder(resp.Body).Decode(&chatResp)
Decode(body) ==
    IF body.kind = "json" THEN [ok |-> TRUE, Choices |-> body.choices]
    ELSE [ok |-> FALSE, Choices |-> <<>>]

\* ExplainResult that decodes the body before it looks at the status.
ExplainResult_DecodeFirst(sent, status, body) ==
    IF ~sent THEN [text |-> <<>>, err |-> TransportError]
    ELSE LET chatResp == Decode(body)
         IN  IF ~chatResp.ok THEN [text |-> <<>>, err |-> DecodeError]
             ELSE IF status # StatusOK THEN [text |-> <<>>, err |-> APIError(status, body)]
             ELSE IF Len(chatResp.Choices) = 0 \/ chatResp.Choices[1] = <<>>
                  THEN [text |-> <<>>, err |-> EmptyResponseError]
                  ELSE [text |-> TrimSpace(chatResp.Choices[1]), err |-> nil]

\* ExplainResult that takes the last candidate instead of the first.
ExplainResult_LastCandidate(sent, status, body) ==
    IF ~sent THEN [text |-> <<>>, err |-> TransportError]
    ELSE IF status # StatusOK THEN [text |-> <<>>, err |-> APIError(status, body)]
    ELSE LET chatResp == Decode(body)
             n == Len(chatResp.Choices)
         IN  IF ~chatResp.ok THEN [text |-> <<>>, err |-> DecodeError]
             ELSE IF n = 0 \/ chatResp.Choices[n] = <<>>
                  THEN [text |-> <<>>, err |-> EmptyResponseError]
                  ELSE [text |-> TrimSpace(chatResp.Choices[n]), err |-> nil]

\* client.go:215-235: what ExplainCommit returns once client.Do has
\* returned: sent is FALSE when client.Do returned an error.
ExplainResult(sent, status, body) ==
    IF ~sent THEN [text |-> <<>>, err |-> TransportError]
    ELSE IF status # StatusOK THEN [text |-> <<>>, err |-> APIError(status, body)]
    ELSE LET chatResp == Decode(body)
         IN  IF ~chatResp.ok THEN [text |-> <<>>, err |-> DecodeError]
             ELSE IF Len(chatResp.Choices) = 0 \/ chatResp.Choices[1] = <<>>
                  THEN [text |-> <<>>, err |-> EmptyResponseError]
                  ELSE [text |-> TrimSpace(chatResp.Choices[1]), err |-> nil]

\* IsRunning that takes any answer for reachable.
IsRunning_AnyAnswer(answered, status) == answered

\* IsRunning, once client.Get has returned: answered is FALSE on a network
\* error or a timeout.
IsRunning(answered, status) == answered /\ status = StatusOK

\* client.go:49: what client.Get returned, a response with its status or an
\* error and no response.
Got(answered, status) ==
    [answered |-> answered, status |-> IF answered THEN status ELSE 0]
NoProbe == [answered |-> FALSE, status |-> -1]

\* ------------------------------------------------------------- inputs
\* Each run draws one family of inputs from its full bounded set and the
\* others from a few representatives; scope says which.
Scopes == {"commit", "config", "response"}
Builds == {"cli", "gui"}
\* os.Args[1], "" when the program is run without arguments
Args == {"", "--help", "-h", "--raw"}
\* runtime.GOOS
Platforms == {"darwin", "windows", "linux"}
\* LM_STUDIO_CMD: unset, blank, a command
EnvCmds == {<<>>, <<" ">>, <<"c">>}

OutChars == {" ", "s", "%"}
Outputs(sc) ==
    IF sc = "commit" THEN SeqsUpTo(OutChars, MaxOut) ELSE {<<>>, <<" ", "s">>}

TempChars == {"0", "7", ".", "x"}
NoNumbers == {<<"n", "a", "n">>, <<"i", "n", "f">>}
Overrides == {"", "override"}
Envs(sc) ==
    IF sc = "config"
    THEN [ EXPLAIN_TEMPERATURE : SeqsUpTo(TempChars, MaxTemp) \cup NoNumbers,
           LMSTUDIO_BASE_URL : Overrides,
           LMSTUDIO_MODEL : Overrides,
           LMSTUDIO_API_KEY : Overrides ]
    ELSE [ EXPLAIN_TEMPERATURE : {<<>>, <<".", "7">>},
           LMSTUDIO_BASE_URL : {""},
           LMSTUDIO_MODEL : {""},
           LMSTUDIO_API_KEY : {""} ]
\* the environment before the program has read it
UnreadEnv ==
    [ EXPLAIN_TEMPERATURE |-> <<"?">>, LMSTUDIO_BASE_URL |-> "?",
      LMSTUDIO_MODEL |-> "?", LMSTUDIO_API_KEY |-> "?" ]

ContentChars == {" ", "X"}
LaterContents == {<<>>, <<"Y">>}
Bodies(sc) ==
    IF sc = "response"
    THEN {TextBody, MismatchBody, JsonBody(<<>>)}
         \cup { JsonBody(<<first>> \o rest) :
                  first \in SeqsUpTo(ContentChars, MaxContent),
                  rest \in SeqsUpTo(LaterContents, MaxChoices - 1) }
    ELSE {TextBody, JsonBody(<< <<"X">> >>)}
Statuses(sc) == IF sc = "response" THEN {200, 201, 500} ELSE {200, 500}
Durations == 0..ProbeTimeout

\* -------------------------------------------------------------- state
VARIABLES
    scope,        \* which input family this run enumerates in full
    build,        \* which revision of the bootstrap is built
    args,         \* os.Args[1]
    env,          \* the process environment, from the point it is read
    goos,         \* runtime.GOOS
    pc,           \* where the thread is
    hung,         \* the collaborator the thread waits for will never answer
    commitText,   \* main: commitText
    err,          \* the error value last returned to the caller
    explanation,  \* main: explanation
    stdout,       \* what has been printed, in order
    exitCode,     \* -1 while the process runs
    gitRuns,      \* how often git show was started
    bootRuns,     \* how often StartLMStudio was entered
    posts,        \* how often the chat-completions POST was sent
    contacted,    \* an HTTP request has been issued
    serverUp,     \* StartLMStudio: what the first IsRunning returned
    now,          \* seconds since the readiness wait began
    tickPending,  \* gui: the ticker channel holds a tick
    waitResult,   \* how the readiness wait ended: "none", "ok", "timeout"
    child,        \* the process the bootstrap started
    launched,     \* the command the bootstrap started
    request,      \* the request ExplainCommit has built
    gitOut,       \* GetLatestCommit: how git show ended, until main goes on
    resp,         \* ExplainCommit: what client.Do returned
    bootErr,      \* ExplainCommit: what StartLMStudio returned
    lastProbe,    \* readiness wait: what its latest probe reported
    probed,       \* IsRunning: what client.Get returned to its latest call
    lmsCli,       \* what isLMSCLIAvailable found: "unasked", "present", "absent"
    psSaw,        \* what isModelLoaded found: "unasked", "listed", "unlisted"
    loadResult    \* how loadModel ended: "none", "ok", "failed"

vars ==
    << scope, build, args, env, goos, pc, hung, commitText, err, explanation,
       stdout, exitCode, gitRuns, bootRuns, posts, contacted, serverUp, now,
       tickPending, waitResult, child, launched, request, gitOut, resp, bootErr,
       lastProbe, probed, lmsCli, psSaw, loadResult >>

inputVars == << scope, build, args >>
mainVars == << commitText, explanation, stdout, exitCode >>
countVars == << gitRuns, bootRuns, posts, contacted >>
bootVars == << goos, serverUp, now, tickPending, waitResult, child, launched >>

\* the blocking points: the thread waits for a collaborator
WaitPcs ==
    {"git_wait", "start_wait", "boot_probe", "avail_wait", "ps_wait", "load_wait",
     "poll_probe", "gui_probe", "post_wait"}
\* the timeout the code sets for the wait at p, in seconds; 0 where it sets
\* none (exec.Command without a context: git.go:12-14, client.go:94-95)
TimeoutOf(p) ==
    CASE p \in {"boot_probe", "poll_probe", "gui_probe"} -> ProbeTimeout
      [] p = "avail_wait" -> CLICheckTimeout
      [] p = "ps_wait" -> ModelListTimeout
      [] p = "load_wait" -> ModelLoadTimeout
      [] p = "post_wait" -> PostTimeout
      [] OTHER -> 0
TimedWaits == {p \in WaitPcs : TimeoutOf(p) > 0}
ProbePcs == {"boot_probe", "poll_probe", "gui_probe"}

NoGitOut == [exitOK |-> FALSE, out |-> <<"?">>]
NoResp == [sent |-> FALSE, status |-> -1, body |-> NoBody]

Line(tag, text) == [tag |-> tag, text |-> text]

Init ==
    /\ scope \in Scopes
    /\ build \in Builds
    /\ args \in Args
    /\ env = UnreadEnv
    /\ goos \in Platforms
    /\ pc = "main"
    /\ hung = FALSE
    /\ commitText = <<>>
    /\ err = nil
    /\ explanation = <<>>
    /\ stdout = <<>>
    /\ exitCode = -1
    /\ gitRuns = 0
    /\ bootRuns = 0
    /\ posts = 0
    /\ contacted = FALSE
    /\ serverUp = FALSE
    /\ now = 0
    /\ tickPending = FALSE
    /\ waitResult = "none"
    /\ child = "none"
    /\ launched = "none"
    /\ request = NoRequest
    /\ gitOut = NoGitOut
    /\ resp = NoResp
    /\ bootErr = Err("pending")
    /\ lastProbe = "none"
    /\ probed = NoProbe
    /\ lmsCli = "unasked"
    /\ psSaw = "unasked"
    /\ loadResult = "none"

\* ---------------------------------------------------------------- main
\* main.go (src/unnamed/part_002:12-25): the help flag, else git show is
\* started and the thread blocks in cmd.Output.
Main_Start ==
    /\ pc = "main"
    /\ IF args \in {"--help", "-h"}
       THEN /\ stdout' = Append(stdout, Line("usage", <<>>))
            /\ pc' = "exit"
            /\ exitCode' = 0
            /\ UNCHANGED gitRuns
       ELSE /\ stdout' = Append(stdout, Line("reading", <<>>))
            /\ pc' = "git_wait"
            /\ gitRuns' = gitRuns + 1
            /\ UNCHANGED exitCode
    /\ UNCHANGED << inputVars, env, hung, commitText, err, explanation, bootRuns,
                    posts, contacted, bootVars, request, gitOut, resp, bootErr,
                    lastProbe, probed, lmsCli, psSaw, loadResult >>

\* The collaborator the thread waits for stops answering for good.
Hangs ==
    /\ pc \in WaitPcs
    /\ ~hung
    /\ hung' = TRUE
    /\ UNCHANGED << inputVars, env, pc, mainVars, err, countVars, bootVars, request,
                    gitOut, resp, bootErr, lastProbe, probed, lmsCli, psSaw, loadResult >>

\* git.go:14-23: git show ends; cmd.Output has no timeout, so it returns
\* only when the subprocess has ended.
Git_Exits ==
    /\ pc = "git_wait"
    /\ ~hung
    /\ \E exitOK \in BOOLEAN, out \in Outputs(scope) :
         LET r == GetLatestCommit(exitOK, out)
         IN  /\ commitText' = r.text
             /\ err' = r.err
             /\ gitOut' = [exitOK |-> exitOK, out |-> out]
    /\ pc' = "main_commit"
    /\ UNCHANGED << inputVars, env, hung, explanation, stdout, exitCode, countVars,
                    bootVars, request, resp, bootErr, lastProbe, probed, lmsCli, psSaw, loadResult >>

\* Main_AfterCommit without the test of the commit read's error.
Main_AfterCommit_IgnoresError ==
    /\ pc = "main_commit"
    /\ IF args = "--raw"
       THEN /\ stdout' = stdout \o << Line("rawhdr", <<>>), Line("commit", commitText) >>
            /\ pc' = "exit"
            /\ exitCode' = 0
            /\ UNCHANGED << bootRuns, contacted >>
       ELSE /\ stdout' = stdout \o << Line("got", <<>>), Line("asking", <<>>) >>
            /\ pc' = "boot_probe"
            /\ bootRuns' = bootRuns + 1
            /\ contacted' = TRUE
            /\ UNCHANGED exitCode
    /\ gitOut' = NoGitOut
    /\ UNCHANGED << inputVars, env, hung, commitText, err, explanation, gitRuns,
                    posts, bootVars, request, resp, bootErr, lastProbe, probed, lmsCli, psSaw, loadResult >>

\* Main_AfterCommit with the raw flag tested only after the explanation has
\* been asked for.
Main_AfterCommit_RawIgnored ==
    /\ pc = "main_commit"
    /\ IF err # nil
       THEN /\ pc' = "exit"
            /\ exitCode' = 1
            /\ UNCHANGED << stdout, bootRuns, contacted >>
       ELSE /\ stdout' = stdout \o << Line("got", <<>>), Line("asking", <<>>) >>
            /\ pc' = "boot_probe"
            /\ bootRuns' = bootRuns + 1
            /\ contacted' = TRUE
            /\ UNCHANGED exitCode
    /\ gitOut' = NoGitOut
    /\ UNCHANGED << inputVars, env, hung, commitText, err, explanation, gitRuns,
                    posts, bootVars, request, resp, bootErr, lastProbe, probed, lmsCli, psSaw, loadResult >>

\* main.go (part_002:26-39): fatal on an error, the raw print, or the call
\* of ExplainCommit, which enters StartLMStudio, which sends the first probe.
Main_AfterCommit ==
    /\ pc = "main_commit"
    /\ IF err # nil
       THEN /\ pc' = "exit"
            /\ exitCode' = 1
            /\ UNCHANGED << stdout, bootRuns, contacted >>
       ELSE IF args = "--raw"
       THEN /\ stdout' = stdout \o << Line("rawhdr", <<>>), Line("commit", commitText) >>
            /\ pc' = "exit"
            /\ exitCode' = 0
            /\ UNCHANGED << bootRuns, contacted >>
       ELSE /\ stdout' = stdout \o << Line("got", <<>>), Line("asking", <<>>) >>
            /\ pc' = "boot_probe"
            /\ bootRuns' = bootRuns + 1
            /\ contacted' = TRUE
            /\ UNCHANGED exitCode
    /\ gitOut' = NoGitOut
    /\ UNCHANGED << inputVars, env, hung, commitText, err, explanation, gitRuns,
                    posts, bootVars, request, resp, bootErr, lastProbe, probed, lmsCli, psSaw, loadResult >>

\* ------------------------------------------------------- the bootstrap
ProbeStatuses == {200, 204, 503}

\* what no step of the bootstrap changes
bootFrame == << inputVars, env, mainVars, countVars, request, gitOut, resp, bootErr >>

\* client.go:119-135, cli: the first IsRunning has returned (the probe has a
\* 5 s timeout, so it returns also when the server never answers); either
\* way the next call is isLMSCLIAvailable.
Cli_FirstProbeReturns ==
    /\ pc = "boot_probe"
    /\ build = "cli"
    /\ \E answered \in BOOLEAN, status \in ProbeStatuses :
         /\ hung => ~answered
         /\ probed' = Got(answered, status)
         /\ serverUp' = IsRunning(answered, status)
    /\ pc' = "avail_wait"
    /\ hung' = FALSE
    /\ UNCHANGED << lastProbe, lmsCli, psSaw, loadResult, bootFrame, err, goos, now, tickPending, waitResult, child, launched >>

\* client.go:121-151: isLMSCLIAvailable has returned (2 s timeout).
Cli_AvailReturns ==
    /\ pc = "avail_wait"
    /\ \E avail \in BOOLEAN :
         /\ hung => ~avail
         /\ lmsCli' = IF avail THEN "present" ELSE "absent"
         /\ IF serverUp /\ avail
            THEN /\ pc' = "ps_wait"
                 /\ UNCHANGED << err, child, launched >>
            ELSE IF serverUp
            THEN /\ pc' = "boot_ret"
                 /\ err' = nil
                 /\ UNCHANGED << child, launched >>
            ELSE IF avail
            THEN /\ pc' = "start_wait"
                 /\ launched' = "lms server start"
                 /\ child' = "running"
                 /\ UNCHANGED err
            ELSE /\ pc' = "boot_ret"
                 /\ err' = StartManuallyError
                 /\ UNCHANGED << child, launched >>
    /\ hung' = FALSE
    /\ UNCHANGED << lastProbe, probed, psSaw, loadResult, bootFrame, goos, serverUp, now,
                    tickPending, waitResult >>

\* client.go:92-100, 136-139: `lms server start` has ended; CombinedOutput
\* has no timeout and returns only then.  On success waitForServer begins:
\* the deadline is set and, 0 being before it, the first probe is sent.
Cli_StartExits ==
    /\ pc = "start_wait"
    /\ ~hung
    /\ child' = "exited"
    /\ \E ok \in BOOLEAN :
         IF ok
         THEN /\ pc' = "poll_probe"
              /\ now' = 0
              /\ UNCHANGED err
         ELSE /\ pc' = "boot_ret"
              /\ err' = StartError
              /\ UNCHANGED now
    /\ UNCHANGED << lastProbe, probed, lmsCli, psSaw, loadResult, bootFrame, hung, goos, serverUp, tickPending, waitResult, launched >>

\* Cli_PollProbeReturns with the deadline tested by "not after" instead of
\* "before".
Cli_PollProbeReturns_NotAfter ==
    /\ pc = "poll_probe"
    /\ \E answered \in BOOLEAN, status \in ProbeStatuses, d \in Durations :
         /\ hung => (~answered /\ d = ProbeTimeout)
         /\ probed' = Got(answered, status)
         /\ lastProbe' = IF IsRunning(answered, status) THEN "up" ELSE "down"
         /\ IF IsRunning(answered, status)
            THEN /\ pc' = "wait_ret"
                 /\ waitResult' = "ok"
                 /\ now' = now + d
            ELSE IF now + d + PollInterval <= ReadyTimeout
            THEN /\ pc' = "poll_probe"
                 /\ now' = now + d + PollInterval
                 /\ UNCHANGED waitResult
            ELSE /\ pc' = "wait_ret"
                 /\ waitResult' = "timeout"
                 /\ now' = now + d + PollInterval
    /\ hung' = FALSE
    /\ UNCHANGED << lmsCli, psSaw, loadResult, bootFrame, err, goos, serverUp, tickPending, child, launched >>

\* client.go:106-113: a probe of waitForServer has returned after d seconds.
\* Reachable: the wait returns nil.  Otherwise the thread sleeps one
\* interval and tests the deadline: before it the next probe is sent, else
\* the wait returns the timeout error.
Cli_PollProbeReturns ==
    /\ pc = "poll_probe"
    /\ \E answered \in BOOLEAN, status \in ProbeStatuses, d \in Durations :
         /\ hung => (~answered /\ d = ProbeTimeout)
         /\ probed' = Got(answered, status)
         /\ lastProbe' = IF IsRunning(answered, status) THEN "up" ELSE "down"
         /\ IF IsRunning(answered, status)
            THEN /\ pc' = "wait_ret"
                 /\ waitResult' = "ok"
                 /\ now' = now + d
            ELSE IF now + d + PollInterval < ReadyTimeout
            THEN /\ pc' = "poll_probe"
                 /\ now' = now + d + PollInterval
                 /\ UNCHANGED waitResult
            ELSE /\ pc' = "wait_ret"
                 /\ waitResult' = "timeout"
                 /\ now' = now + d + PollInterval
    /\ hung' = FALSE
    /\ UNCHANGED << lmsCli, psSaw, loadResult, bootFrame, err, goos, serverUp, tickPending, child, launched >>

\* client.go:139-147 and git.go:128-131: the readiness wait has returned to
\* StartLMStudio.  A timeout is returned as the bootstrap's error; after a
\* successful wait the cli build goes on to isModelLoaded, the gui build
\* returns nil.
Wait_Returns ==
    /\ pc = "wait_ret"
    /\ IF waitResult = "timeout"
       THEN /\ pc' = "boot_ret"
            /\ err' = TimeoutError
       ELSE IF build = "cli"
       THEN /\ pc' = "ps_wait"
            /\ UNCHANGED err
       ELSE /\ pc' = "boot_ret"
            /\ err' = nil
    /\ now' = 0
    /\ tickPending' = FALSE
    /\ UNCHANGED << lastProbe, probed, lmsCli, psSaw, loadResult, bootFrame, hung, goos, serverUp, waitResult, child, launched >>

\* client.go:122-129, 143-148: isModelLoaded has returned (3 s timeout); a
\* model that is not listed is loaded.
Cli_PsReturns ==
    /\ pc = "ps_wait"
    /\ \E loaded \in BOOLEAN :
         /\ hung => ~loaded
         /\ psSaw' = IF loaded THEN "listed" ELSE "unlisted"
         /\ IF loaded
            THEN /\ pc' = "boot_ret"
                 /\ err' = nil
            ELSE /\ pc' = "load_wait"
                 /\ UNCHANGED err
    /\ hung' = FALSE
    /\ UNCHANGED << lastProbe, probed, lmsCli, loadResult, bootFrame, goos, serverUp, now,
                    tickPending, waitResult, child, launched >>

\* client.go:78-89, 124-126: loadModel has returned (60 s timeout).
Cli_LoadReturns ==
    /\ pc = "load_wait"
    /\ \E ok \in BOOLEAN :
         /\ hung => ~ok
         /\ loadResult' = IF ok THEN "ok" ELSE "failed"
         /\ err' = IF ok THEN nil ELSE LoadError
    /\ pc' = "boot_ret"
    /\ hung' = FALSE
    /\ UNCHANGED << lastProbe, probed, lmsCli, psSaw, bootFrame, goos, serverUp, now, tickPending, waitResult, child, launched >>

\* git.go:91-106: the command the gui build starts, "none" where it knows
\* no way to start LM Studio.
GuiCommand(envCmd, g) ==
    IF TrimSpace(envCmd) # <<>> THEN "LM_STUDIO_CMD"
    ELSE IF g = "darwin" THEN "open -a LM Studio"
    ELSE IF g = "windows" THEN "none"
    ELSE "lmstudio"

\* git.go:83-122, gui: the first IsRunning has returned.  Reachable: nil.
\* Otherwise the command is chosen and started; cmd.Start does not wait for
\* the process, a goroutine reaps it, and the timer and the ticker are set.
Gui_FirstProbeReturns ==
    /\ pc = "boot_probe"
    /\ build = "gui"
    /\ \E answered \in BOOLEAN, status \in ProbeStatuses :
         /\ hung => ~answered
         /\ probed' = Got(answered, status)
         /\ serverUp' = IsRunning(answered, status)
         /\ IF IsRunning(answered, status)
            THEN /\ pc' = "boot_ret"
                 /\ err' = nil
                 /\ UNCHANGED << child, launched >>
            ELSE \E envCmd \in EnvCmds, started \in BOOLEAN :
                   /\ launched' = GuiCommand(envCmd, goos)
                   /\ IF GuiCommand(envCmd, goos) = "none"
                      THEN /\ pc' = "boot_ret"
                           /\ err' = StartManuallyError
                           /\ UNCHANGED child
                      ELSE IF ~started
                      THEN /\ pc' = "boot_ret"
                           /\ err' = StartError
                           /\ child' = "failed"
                      ELSE /\ pc' = "gui_select"
                           /\ child' = "running"
                           /\ UNCHANGED err
    /\ hung' = FALSE
    /\ UNCHANGED << lastProbe, lmsCli, psSaw, loadResult, bootFrame, goos, now, tickPending, waitResult >>

\* git.go:124-129, gui: the select takes a tick and sends a probe.  A tick
\* is taken when one is pending, or after blocking until the next one; the
\* timer case being ready too does not prevent it, select then chooses at
\* random between the two.
Gui_TakesTick ==
    /\ pc = "gui_select"
    /\ tickPending \/ now < ReadyTimeout
    /\ now < ReadyTimeout + MaxOverrun
    /\ now' = IF tickPending THEN now ELSE now + PollInterval
    /\ tickPending' = FALSE
    /\ pc' = "gui_probe"
    /\ UNCHANGED << lastProbe, probed, lmsCli, psSaw, loadResult, bootFrame, hung, err, goos, serverUp, waitResult, child, launched >>

\* git.go:130-131, gui: the select takes the 30 s timer.  The timer case is
\* ready from the deadline on; the select blocks until then when no tick is
\* pending and none comes earlier.
Gui_TimerFires ==
    /\ pc = "gui_select"
    /\ now >= ReadyTimeout \/ (~tickPending /\ now + PollInterval >= ReadyTimeout)
    /\ now' = IF now >= ReadyTimeout THEN now ELSE ReadyTimeout
    /\ waitResult' = "timeout"
    /\ pc' = "wait_ret"
    /\ UNCHANGED << lastProbe, probed, lmsCli, psSaw, loadResult, bootFrame, hung, err, goos, serverUp, tickPending, child, launched >>

\* git.go:127-129, gui: the probe has returned after d seconds; the ticker
\* has ticked meanwhile when d is at least one interval (its channel holds
\* one tick, further ones are dropped).
Gui_ProbeReturns ==
    /\ pc = "gui_probe"
    /\ \E answered \in BOOLEAN, status \in ProbeStatuses, d \in Durations :
         /\ hung => (~answered /\ d = ProbeTimeout)
         /\ probed' = Got(answered, status)
         /\ lastProbe' = IF IsRunning(answered, status) THEN "up" ELSE "down"
         /\ now' = now + d
         /\ IF IsRunning(answered, status)
            THEN /\ pc' = "wait_ret"
                 /\ waitResult' = "ok"
                 /\ UNCHANGED tickPending
            ELSE /\ pc' = "gui_select"
                 /\ tickPending' = (d >= PollInterval)
                 /\ UNCHANGED waitResult
    /\ hung' = FALSE
    /\ UNCHANGED << lmsCli, psSaw, loadResult, bootFrame, err, goos, serverUp, child, launched >>

\* git.go:116-118, gui: the started process ends on its own and the
\* goroutine blocked in cmd.Wait reaps it; the thread is not involved.
Child_Exits ==
    /\ build = "gui"
    /\ child = "running"
    /\ pc # "exit"
    /\ child' = "exited"
    /\ UNCHANGED << lastProbe, probed, lmsCli, psSaw, loadResult, bootFrame, pc, hung, err, goos, serverUp, now, tickPending,
                    waitResult, launched >>

\* ------------------------------------------------------- ExplainCommit
\* client.go:161-215: StartLMStudio has returned.  Its error is returned as
\* is; otherwise the environment is read and the request is built; a request
\* that cannot be encoded is returned as an error, any other is sent.
Explain_AfterBoot ==
    /\ pc = "boot_ret"
    /\ IF err # nil
       THEN /\ pc' = "main_explained"
            /\ UNCHANGED << env, request, posts, err >>
       ELSE \E e \in Envs(scope) :
              /\ env' = e
              /\ request' = BuildRequest(commitText, e)
              /\ IF Marshals(BuildRequest(commitText, e))
                 THEN /\ posts' = posts + 1
                      /\ pc' = "post_wait"
                      /\ UNCHANGED err
                 ELSE /\ err' = MarshalError
                      /\ pc' = "main_explained"
                      /\ UNCHANGED posts
    /\ bootErr' = err
    /\ UNCHANGED << inputVars, hung, mainVars, gitRuns, bootRuns, contacted,
                    bootVars, gitOut, resp, lastProbe, probed, lmsCli, psSaw, loadResult >>

\* client.go:215-235: client.Do has returned (60 s timeout) and the
\* response is turned into the result of ExplainCommit.
Post_Returns ==
    /\ pc = "post_wait"
    /\ \E sent \in BOOLEAN, status \in Statuses(scope), body \in Bodies(scope) :
         /\ hung => ~sent
         /\ LET r == ExplainResult(sent, status, body)
            IN  /\ explanation' = r.text
                /\ err' = r.err
         /\ resp' = [sent |-> sent, status |-> IF sent THEN status ELSE 0,
                     body |-> IF sent THEN body ELSE NoBody]
    /\ pc' = "main_explained"
    /\ hung' = FALSE
    /\ UNCHANGED << inputVars, env, commitText, stdout, exitCode, countVars, bootVars,
                    request, gitOut, bootErr, lastProbe, probed, lmsCli, psSaw, loadResult >>

\* main.go (part_002:40-45): fatal on an error, else the explanation is
\* printed and main returns.
Main_AfterExplain ==
    /\ pc = "main_explained"
    /\ IF err # nil
       THEN /\ exitCode' = 1
            /\ UNCHANGED stdout
       ELSE /\ exitCode' = 0
            /\ stdout' = stdout \o << Line("exphdr", <<>>), Line("explanation", explanation) >>
    /\ pc' = "exit"
    /\ UNCHANGED << inputVars, env, hung, commitText, err, explanation, countVars,
                    bootVars, request, gitOut, resp, bootErr, lastProbe, probed, lmsCli, psSaw, loadResult >>

\* -------------------------------------------------------- specification
Next ==
    \/ Main_Start
    \/ Hangs
    \/ Git_Exits
    \/ Main_AfterCommit
    \/ Cli_FirstProbeReturns
    \/ Cli_AvailReturns
    \/ Cli_StartExits
    \/ Cli_PollProbeReturns
    \/ Wait_Returns
    \/ Cli_PsReturns
    \/ Cli_LoadReturns
    \/ Gui_FirstProbeReturns
    \/ Gui_TakesTick
    \/ Gui_TimerFires
    \/ Gui_ProbeReturns
    \/ Child_Exits
    \/ Explain_AfterBoot
    \/ Post_Returns
    \/ Main_AfterExplain

Spec == Init /\ [][Next]_vars

\* ================================================================ claims
\* the texts printed that are no fixed banner
Payload == SelectSeq(stdout, LAMBDA l : l.tag \in {"commit", "explanation"})
CommitReadFailed == gitRuns = 1 /\ pc # "git_wait" /\ commitText = <<>>
BootFailed == bootErr \notin {Err("pending"), nil}

\* C1: the stages run in the order commit read, bootstrap, POST, each at
\* most once; a stage starts only after every earlier stage has succeeded:
\* after a failed commit read the server is never contacted, after a failed
\* bootstrap no POST is sent and ExplainCommit returns the bootstrap's error;
\* a failed stage ends the run with a non-zero exit code, and a run that
\* exits with 0 in the full flow has run each stage exactly once.
C1_StagesInOrder ==
    /\ gitRuns <= 1 /\ bootRuns <= 1 /\ posts <= 1
    /\ bootRuns = 1 => (gitRuns = 1 /\ commitText # <<>>)
    /\ contacted => bootRuns = 1
    /\ posts = 1 => (bootRuns = 1 /\ bootErr = nil)
    /\ CommitReadFailed => (~contacted /\ bootRuns = 0 /\ posts = 0)
    /\ BootFailed => (posts = 0 /\ request = NoRequest /\ err = bootErr /\ explanation = <<>>)
    /\ (pc = "exit" /\ (CommitReadFailed \/ BootFailed \/ err # nil)) => exitCode = 1
    /\ (pc = "exit" /\ args = "" /\ exitCode = 0) =>
           (gitRuns = 1 /\ bootRuns = 1 /\ posts = 1 /\ err = nil)

\* C1 witness: a full run that read the commit, started the server, waited
\* for it, sent the POST and printed the explanation.
C1_Witness ==
    /\ pc = "exit" /\ args = "" /\ exitCode = 0
    /\ gitRuns = 1 /\ bootRuns = 1 /\ posts = 1
    /\ waitResult = "ok" /\ Payload = <<Line("explanation", explanation)>>

\* C2: with --raw no run contacts the server or starts anything, whatever
\* git show returned, and after a successful commit read the one text
\* printed is the Commit Reader's result, and the exit code is 0.
C2_RawNoNetwork ==
    args = "--raw" =>
        /\ ~contacted /\ bootRuns = 0 /\ posts = 0
        /\ pc \notin TimedWaits \cup {"start_wait", "gui_select", "wait_ret", "boot_ret"}
        /\ launched = "none" /\ child = "none" /\ request = NoRequest
        /\ (pc = "exit" /\ err = nil) =>
               (exitCode = 0 /\ commitText # <<>> /\ Payload = <<Line("commit", commitText)>>)
        /\ (pc = "exit" /\ err # nil) => (exitCode = 1 /\ Payload = <<>>)

\* C2 witness: a --raw run that printed a commit text with a blank inside.
C2_Witness ==
    /\ args = "--raw" /\ pc = "exit" /\ exitCode = 0
    /\ Len(commitText) = 3 /\ commitText[2] = " "
    /\ Payload = <<Line("commit", commitText)>>

\* C3: no collaborator that never answers blocks the process: as long as
\* the process has not exited, some step of it can be taken.
C3_NoWaitBlocksForever == pc # "exit" => ENABLED Next

\* C5: the caller is never blocked until the process it started has ended.
C5_StartedProcessNotAwaited == ~(pc = "start_wait" /\ child = "running")

\* t is x without its leading and trailing white space
TrimOf(x, t) ==
    /\ t = <<>> \/ (~IsSpace(t[1]) /\ ~IsSpace(t[Len(t)]))
    /\ \E i \in 1..(Len(x) + 1) :
         /\ i + Len(t) - 1 <= Len(x)
         /\ SubSeq(x, i, i + Len(t) - 1) = t
         /\ \A k \in 1..Len(x) : (k < i \/ k >= i + Len(t)) => IsSpace(x[k])
Blank(x) == \A k \in 1..Len(x) : IsSpace(x[k])
PollPcs == {"poll_probe", "gui_probe", "gui_select"}
PostReturned == posts = 1 /\ pc \in {"main_explained", "exit"}

\* C4 as stated: a readiness wait that returns success has seen a probe
\* succeed before the deadline.
C4_SuccessOnlyBeforeDeadline ==
    (pc = "wait_ret" /\ waitResult = "ok") => (lastProbe = "up" /\ now < ReadyTimeout)

\* C4 amended: polling runs only after a start command for an unreachable
\* server; the wait returns success exactly when its latest probe reported
\* the server reachable, and then at once, also when that probe ends after
\* the deadline; it returns the timeout error only once the deadline has
\* passed, with no probe having succeeded; the cli build sends no probe at or
\* after the deadline and so returns within one probe timeout of it; after
\* the wait has returned no probe is sent.
C4_ReadinessWait ==
    /\ pc \in PollPcs => (launched # "none" /\ ~serverUp /\ waitResult = "none" /\ lastProbe # "up")
    /\ pc = "wait_ret" => (waitResult \in {"ok", "timeout"} /\ (waitResult = "ok" <=> lastProbe = "up"))
    /\ (pc = "wait_ret" /\ waitResult = "timeout") => now >= ReadyTimeout
    /\ (build = "cli" /\ pc = "poll_probe") => now < ReadyTimeout
    /\ (build = "cli" /\ pc = "wait_ret" /\ waitResult = "ok") => now < ReadyTimeout + ProbeTimeout
    /\ waitResult # "none" => pc \notin (ProbePcs \cup PollPcs)
    /\ (waitResult = "timeout" /\ pc # "wait_ret") => (bootErr \in {Err("pending"), TimeoutError} /\ posts = 0)
    /\ (pc = "boot_ret" /\ waitResult = "timeout") => err = TimeoutError

\* C4 witness: the wait has timed out after a last probe that failed and
\* the bootstrap has returned the timeout error.
C4_Witness ==
    /\ pc = "boot_ret" /\ waitResult = "timeout" /\ lastProbe = "down" /\ err = TimeoutError

\* C6: once the POST has been sent the failure of ExplainCommit is that of
\* the first failing step: no response gives TransportError, else a status
\* other than 200 gives APIError with that status and the body, else a body
\* that does not decode gives DecodeError, else no candidate or an empty
\* first content gives EmptyResponseError; no failure returns a text.
C6_FirstFailingStep ==
    PostReturned =>
        /\ ~resp.sent => err = TransportError
        /\ (resp.sent /\ resp.status # 200) =>
               (err.kind = "APIError" /\ err.status = resp.status /\ err.body = resp.body)
        /\ (resp.sent /\ resp.status = 200 /\ resp.body.kind # "json") => err = DecodeError
        /\ (resp.sent /\ resp.status = 200 /\ resp.body.kind = "json"
              /\ (resp.body.choices = <<>> \/ Head(resp.body.choices) = <<>>)) =>
               err = EmptyResponseError
        /\ err # nil => (explanation = <<>> /\ (pc = "exit" => (Payload = <<>> /\ exitCode = 1)))

\* C6 witness: a 500 response with the body "oops" has ended the run with
\* an APIError that carries both.
C6_Witness ==
    /\ pc = "exit" /\ exitCode = 1 /\ resp.sent /\ resp.status = 500 /\ resp.body = TextBody
    /\ err = APIError(500, TextBody)

\* C7: for a 200 response whose body decodes, only the first candidate
\* counts: a non-empty first content is returned with its surrounding white
\* space removed, whatever the later candidates are; no candidate or an
\* empty first content gives EmptyResponseError and no text.
C7_FirstCandidateTrimmed ==
    (PostReturned /\ resp.sent /\ resp.status = 200 /\ resp.body.kind = "json") =>
        LET cs == resp.body.choices
        IN  IF cs # <<>> /\ Head(cs) # <<>>
            THEN /\ err = nil
                 /\ TrimOf(Head(cs), explanation)
                 /\ pc = "exit" => (exitCode = 0 /\ Payload = <<Line("explanation", explanation)>>)
            ELSE err = EmptyResponseError /\ explanation = <<>>

\* C7 witness: two candidates, the first with a leading blank; the text
\* printed is the first without the blank.
C7_Witness ==
    /\ pc = "exit" /\ resp.sent /\ resp.status = 200
    /\ resp.body = JsonBody(<< <<" ", "X">>, <<"Y">> >>)
    /\ explanation = <<"X">>

Wanted(override, default) == IF override # "" THEN override ELSE default
ValidDecimal(t) ==
    /\ \A i \in 1..Len(t) : t[i] \in {"0", "7", "."}
    /\ Cardinality({i \in 1..Len(t) : t[i] = "."}) <= 1
    /\ \E i \in 1..Len(t) : t[i] # "."
IsTemp(x, tenths) == x.cls = "num" /\ 10 * x.n = tenths * TempScale
TemperatureResolved ==
    LET t == env.EXPLAIN_TEMPERATURE
    IN  /\ ValidDecimal(t) => (ParseFloat(t).ok /\ request.temperature = ParseFloat(t).val
                                /\ request.temperature.cls = "num")
        /\ (~ValidDecimal(t) /\ t \notin NoNumbers) => IsTemp(request.temperature, 2)
        /\ t \in {<<"0", ".", "7">>, <<".", "7">>} => IsTemp(request.temperature, 7)
        /\ t = <<"7">> => IsTemp(request.temperature, 70)
        /\ t \in NoNumbers =>
               (request.temperature.cls # "num" /\ posts = 0
                /\ (pc \in {"main_explained", "exit"} => err = MarshalError))

C10_CommitTrimmed ==
    pc = "main_commit" =>
        /\ (gitOut.exitOK /\ ~Blank(gitOut.out)) =>
               (err = nil /\ commitText # <<>> /\ TrimOf(gitOut.out, commitText))
        /\ (~gitOut.exitOK \/ Blank(gitOut.out)) => (err = ExecutionError /\ commitText = <<>>)

\* C10 witness: the output " s " was read as "s".
C10_Witness ==
    /\ pc = "main_commit" /\ gitOut.exitOK /\ gitOut.out = <<" ", "s", " ">>
    /\ commitText = <<"s">> /\ err = nil

\* what the latest IsRunning call returned to its caller
Reported == IF lastProbe = "none" THEN serverUp ELSE lastProbe = "up"

\* where a caller of IsRunning stands right after a call that returned false
AfterFalseProbe == {"avail_wait", "poll_probe", "gui_select"}

\* C11: IsRunning returns true exactly when client.Get returned a response
\* and its status is 200; an error (network failure, timeout) or any other
\* status gives false, and the call leaves its caller running, with no
\* error set.
C11_TrueIffStatus200 ==
    probed # NoProbe =>
        /\ Reported <=> (probed.answered /\ probed.status = 200)
        /\ (~probed.answered \/ probed.status # 200) => ~Reported
        /\ pc \in AfterFalseProbe => (err = nil /\ exitCode = -1)

\* C11 witness: the server answered 204 and IsRunning returned false; the
\* caller went on to its next step.
C11_Witness ==
    /\ pc = "avail_wait" /\ probed = Got(TRUE, 204)
    /\ ~serverUp /\ err = nil /\ exitCode = -1

\* the commands that launch the GUI application
GuiLaunches == {"LM_STUDIO_CMD", "open -a LM Studio", "lmstudio"}

\* C12: when StartLMStudio returns, what it did follows from what it saw.
\* Server reachable: nothing was started, and with the CLI present the
\* model was loaded exactly when it was not listed, a failed load being the
\* bootstrap's error.  Server unreachable: with the CLI present the server
\* was started through it; otherwise the GUI application was launched on a
\* platform that has a launch method, and where nothing could be launched
\* the error is the start-manually error.
C12_StrategyByObservation ==
    pc = "boot_ret" =>
        /\ serverUp =>
              /\ launched = "none"
              /\ lmsCli = "present" => (loadResult # "none" <=> psSaw = "unlisted")
              /\ lmsCli # "present" => (loadResult = "none" /\ err = nil)
              /\ loadResult = "failed" => err = LoadError
              /\ loadResult # "failed" => err = nil
        /\ (~serverUp /\ lmsCli = "present") => launched = "lms server start"
        /\ (~serverUp /\ lmsCli # "present" /\ goos # "windows") => launched \in GuiLaunches
        /\ (~serverUp /\ lmsCli # "present" /\ launched = "none") => err = StartManuallyError

====
